---- MODULE Spec2Model ----
(***************************************************************************)
(* smarthubp: decoder of the SmartHub ReadingService token stream.         *)
(*                                                                         *)
(* Text is modelled as Python models it: a str is a sequence of            *)
(* one-character strings, a list[str] is a sequence of such sequences.     *)
(* Python indices are kept 0-based (Item/InRange give list[i] with the     *)
(* negative-index wrap and the IndexError of the language).                *)
(* An int of arbitrary size (int.from_bytes, datetime seconds) is a        *)
(* big-endian sequence of bytes, since the tick counts of the codec do not *)
(* fit the 32-bit integers of the model checker.                          *)
(***************************************************************************)
EXTENDS Integers, Sequences, FiniteSets, TLC

\* ------------------------------------------------------------------------
\* Bounds of the model
\* ------------------------------------------------------------------------
MaxOffset == 1
MaxTokenLen == 3
MaxCombined == 2
MaxEntries == 2
MaxLists == 2
MaxMeta == 3
MaxStream == 2

\* ------------------------------------------------------------------------
\* Python sequence helpers
\* ------------------------------------------------------------------------
InRange(l, i) == -Len(l) <= i /\ i < Len(l)

Item(l, i) == l[(IF i < 0 THEN i + Len(l) ELSE i) + 1]

Reverse(l) == [i \in 1..Len(l) |-> l[Len(l) + 1 - i]]

RECURSIVE Flatten(_)
Flatten(ll) == IF ll = <<>> THEN <<>> ELSE Head(ll) \o Flatten(Tail(ll))

SeqsUpTo(S, n) == UNION {[1..k -> S] : k \in 0..n}

\* ------------------------------------------------------------------------
\* Arbitrary-size naturals: big-endian byte sequences
\* ------------------------------------------------------------------------
RECURSIVE Norm(_)
Norm(b) == IF b # <<>> /\ Head(b) = 0 THEN Norm(Tail(b)) ELSE b

RECURSIVE IntToBig(_)
IntToBig(n) == IF n = 0 THEN <<>> ELSE Append(IntToBig(n \div 256), n % 256)

RECURSIVE BigToInt(_)
BigToInt(b) == IF b = <<>> THEN 0 ELSE BigToInt(SubSeq(b, 1, Len(b) - 1)) * 256 + b[Len(b)]

\* a < b, both normalised
RECURSIVE LexLess(_, _)
LexLess(a, b) ==
  IF a = <<>> THEN FALSE
  ELSE IF Head(a) # Head(b) THEN Head(a) < Head(b)
  ELSE LexLess(Tail(a), Tail(b))

BigLess(a, b) ==
  LET x == Norm(a)
      y == Norm(b)
  IN IF Len(x) # Len(y) THEN Len(x) < Len(y) ELSE LexLess(x, y)

\* floor(b / d) for a small divisor d, by long division
RECURSIVE DivStep(_, _, _, _)
DivStep(b, d, i, rem) ==
  IF i > Len(b) THEN <<>>
  ELSE LET cur == rem * 256 + b[i]
       IN <<cur \div d>> \o DivStep(b, d, i + 1, cur % d)

BigDivSmall(b, d) == Norm(DivStep(b, d, 1, 0))

\* b * m + carry for a small multiplier m
RECURSIVE MulStep(_, _, _, _)
MulStep(b, m, i, carry) ==
  IF i = 0 THEN IntToBig(carry)
  ELSE LET cur == b[i] * m + carry
       IN Append(MulStep(b, m, i - 1, cur \div 256), cur % 256)

BigMulSmall(b, m) == Norm(MulStep(b, m, Len(b), 0))

BigAddSmall(b, k) == Norm(MulStep(b, 1, Len(b), k))

\* b - k for a small k <= b
RECURSIVE SubStep(_, _, _)
SubStep(b, i, k) ==
  IF i = 0 \/ k = 0 THEN SubSeq(b, 1, i)
  ELSE LET cur == b[i] - (k % 256)
           borrow == IF cur < 0 THEN 1 ELSE 0
       IN Append(SubStep(b, i - 1, (k \div 256) + borrow), cur + 256 * borrow)

BigSubSmall(b, k) == Norm(SubStep(b, Len(b), k))

\* does the natural b fit a small Python-int comparison (below 2^24)?
IsSmall(b) == Len(Norm(b)) <= 3

\* ------------------------------------------------------------------------
\* datetime: whole seconds relative to the epoch, sign and magnitude
\* (datetime.fromtimestamp / datetime.timestamp convert through local time
\* and are inverse to each other; the model keeps the epoch seconds)
\* ------------------------------------------------------------------------
DateTime(neg, mag) == [neg |-> neg /\ Norm(mag) # <<>>, mag |-> Norm(mag)]

Epoch == DateTime(FALSE, <<>>)

\* datetime.max, 9999-12-31 23:59:59, 253402300799 s
MaxTimestamp == <<58, 255, 244, 65, 127>>

\* datetime.min, 0001-01-01 00:00:00, -62135596800 s
MinTimestampMag == <<14, 119, 145, 247, 0>>

\* the largest time_t, 2^63 - 1
MaxTimeT == <<127, 255, 255, 255, 255, 255, 255, 255>>

DateTimeInRange(d) ==
  IF d.neg THEN ~BigLess(MinTimestampMag, d.mag) ELSE ~BigLess(MaxTimestamp, d.mag)

DateTimeLess(a, b) ==
  IF a.neg # b.neg THEN a.neg
  ELSE IF a.neg THEN BigLess(b.mag, a.mag) ELSE BigLess(a.mag, b.mag)

\* d + k seconds, k a small signed integer
AddSeconds(d, k) ==
  LET a == IF k < 0 THEN -k ELSE k
  IN IF k = 0 THEN d
     ELSE IF d.neg = (k < 0) THEN DateTime(d.neg, BigAddSmall(d.mag, a))
     ELSE IF ~IsSmall(d.mag) \/ BigToInt(d.mag) >= a
          THEN DateTime(d.neg, BigSubSmall(d.mag, a))
     ELSE DateTime(k < 0, IntToBig(a - BigToInt(d.mag)))

SecondsPerHour == 3600

\* ------------------------------------------------------------------------
\* base64 with altchars "$_" (base64.b64decode / b64encode, binascii)
\* ------------------------------------------------------------------------
StdAlphabet ==
  << "A","B","C","D","E","F","G","H","I","J","K","L","M",
     "N","O","P","Q","R","S","T","U","V","W","X","Y","Z",
     "a","b","c","d","e","f","g","h","i","j","k","l","m",
     "n","o","p","q","r","s","t","u","v","w","x","y","z",
     "0","1","2","3","4","5","6","7","8","9","+","/" >>

\* bytes.translate(maketrans(altchars, b"+/")) of b64decode
AltToStd(c) == IF c = "$" THEN "+" ELSE IF c = "_" THEN "/" ELSE c

\* bytes.translate(maketrans(b"+/", altchars)) of b64encode
StdToAlt(c) == IF c = "+" THEN "$" ELSE IF c = "/" THEN "_" ELSE c

IsB64(c) == \E i \in 1..64 : StdAlphabet[i] = c

B64Value(c) == (CHOOSE i \in 1..64 : StdAlphabet[i] = c) - 1

\* binascii.a2b_base64, non-strict: characters outside the alphabet are
\* discarded, a pad sequence completing a quad ends the input, one dangling
\* data character is an error.
RECURSIVE a2b_base64(_, _, _, _, _, _)
a2b_base64(s, i, quad_pos, leftchar, pads, out) ==
  IF i > Len(s)
  THEN IF quad_pos = 0 THEN [err |-> "", bytes |-> out]
       ELSE [err |-> "binascii.Error", bytes |-> <<>>]
  ELSE IF s[i] = "="
  THEN IF quad_pos >= 2 /\ quad_pos + pads + 1 >= 4
       THEN [err |-> "", bytes |-> out]
       ELSE a2b_base64(s, i + 1, quad_pos, leftchar,
                       IF quad_pos >= 2 THEN pads + 1 ELSE pads, out)
  ELSE IF ~IsB64(s[i])
  THEN a2b_base64(s, i + 1, quad_pos, leftchar, pads, out)
  ELSE LET v == B64Value(s[i])
       IN CASE quad_pos = 0 -> a2b_base64(s, i + 1, 1, v, 0, out)
            [] quad_pos = 1 -> a2b_base64(s, i + 1, 2, v % 16, 0,
                                          Append(out, leftchar * 4 + (v \div 16)))
            [] quad_pos = 2 -> a2b_base64(s, i + 1, 3, v % 4, 0,
                                          Append(out, leftchar * 16 + (v \div 4)))
            [] OTHER -> a2b_base64(s, i + 1, 0, 0, 0,
                                   Append(out, leftchar * 64 + v))

b64decode(s) == a2b_base64([i \in 1..Len(s) |-> AltToStd(s[i])], 1, 0, 0, 0, <<>>)

RECURSIVE b2a_base64(_)
b2a_base64(b) ==
  LET A(n) == StdAlphabet[n + 1]
  IN IF b = <<>> THEN <<>>
     ELSE IF Len(b) = 1
     THEN << A(b[1] \div 4), A((b[1] % 4) * 16), "=", "=" >>
     ELSE IF Len(b) = 2
     THEN << A(b[1] \div 4), A((b[1] % 4) * 16 + (b[2] \div 16)),
             A((b[2] % 16) * 4), "=" >>
     ELSE << A(b[1] \div 4), A((b[1] % 4) * 16 + (b[2] \div 16)),
             A((b[2] % 16) * 4 + (b[3] \div 64)), A(b[3] % 64) >>
          \o b2a_base64(SubSeq(b, 4, Len(b)))

b64encode(b) == LET e == b2a_base64(b) IN [i \in 1..Len(e) |-> StdToAlt(e[i])]

\* ------------------------------------------------------------------------
\* time_utils.py
\* ------------------------------------------------------------------------
TicksPerSecond == 250

FieldBytes == 8

\* datetime.fromtimestamp(n) for a natural n
fromtimestamp(n) ==
  IF BigLess(MaxTimeT, n) THEN [err |-> "OverflowError", dt |-> Epoch]
  ELSE IF BigLess(MaxTimestamp, n) THEN [err |-> "ValueError", dt |-> Epoch]
  ELSE [err |-> "", dt |-> DateTime(FALSE, n)]

\* int.to_bytes(length, "big") of the signed integer (neg, mag)
to_bytes(neg, mag, length) ==
  IF (neg /\ Norm(mag) # <<>>) \/ Len(Norm(mag)) > length
  THEN [err |-> "OverflowError", bytes |-> <<>>]
  ELSE [err |-> "",
        bytes |-> [i \in 1..(length - Len(Norm(mag))) |-> 0] \o Norm(mag)]

timestamp_from_encoded(ts_str) ==
  LET byte_str == b64decode(ts_str \o <<"=", "=">>)
      msec4epoch == Norm(byte_str.bytes)
  IN IF byte_str.err # "" THEN [err |-> byte_str.err, dt |-> Epoch]
     ELSE fromtimestamp(BigDivSmall(msec4epoch, TicksPerSecond))

encoded_from_timestamp_narrow(timestamp) ==
  LET msec4epoch == BigMulSmall(timestamp.mag, TicksPerSecond)
      byte_str == to_bytes(timestamp.neg, msec4epoch, FieldBytes - 3)
  IN IF byte_str.err # "" THEN [err |-> byte_str.err, tok |-> <<>>]
     ELSE [err |-> "", tok |-> b64encode(byte_str.bytes)]

encoded_from_timestamp_ms(timestamp) ==
  LET msec4epoch == BigMulSmall(timestamp.mag, 1000)
      byte_str == to_bytes(timestamp.neg, msec4epoch, FieldBytes)
  IN IF byte_str.err # "" THEN [err |-> byte_str.err, tok |-> <<>>]
     ELSE [err |-> "", tok |-> b64encode(byte_str.bytes)]

encoded_from_timestamp(timestamp) ==
  LET msec4epoch == BigMulSmall(timestamp.mag, TicksPerSecond)
      byte_str == to_bytes(timestamp.neg, msec4epoch, FieldBytes)
  IN IF byte_str.err # "" THEN [err |-> byte_str.err, tok |-> <<>>]
     ELSE [err |-> "", tok |-> b64encode(byte_str.bytes)]

\* ------------------------------------------------------------------------
\* int(str) and float(str) on decimal literals
\* ------------------------------------------------------------------------
Digits == <<"0", "1", "2", "3", "4", "5", "6", "7", "8", "9">>

IsDigit(c) == \E i \in 1..10 : Digits[i] = c

DigitValue(c) == (CHOOSE i \in 1..10 : Digits[i] = c) - 1

RECURSIVE DigitsValue(_)
DigitsValue(s) ==
  IF s = <<>> THEN 0
  ELSE DigitsValue(SubSeq(s, 1, Len(s) - 1)) * 10 + DigitValue(s[Len(s)])

Unsigned(s) == IF s # <<>> /\ s[1] \in {"-", "+"} THEN Tail(s) ELSE s

IsNegative(s) == s # <<>> /\ s[1] = "-"

\* int(s): an optional sign and one or more digits, else ValueError
int(s) ==
  LET u == Unsigned(s)
  IN IF u = <<>> \/ \E i \in 1..Len(u) : ~IsDigit(u[i])
     THEN [err |-> "ValueError", val |-> 0]
     ELSE [err |-> "", val |-> IF IsNegative(s) THEN -DigitsValue(u) ELSE DigitsValue(u)]

\* a float is kept as the decimal m * 10^-e with no trailing zero in m
RECURSIVE Decimal(_, _)
Decimal(m, e) == IF e > 0 /\ m % 10 = 0 THEN Decimal(m \div 10, e - 1) ELSE [m |-> m, e |-> e]

\* float(s): an optional sign, digits with at most one ".", else ValueError
float(s) ==
  LET u == Unsigned(s)
      dots == {i \in 1..Len(u) : u[i] = "."}
      ds == SelectSeq(u, IsDigit)
      e == IF dots = {} THEN 0 ELSE Len(u) - (CHOOSE i \in dots : TRUE)
  IN IF ds = <<>> \/ Cardinality(dots) > 1 \/ Len(ds) + Cardinality(dots) # Len(u)
     THEN [err |-> "ValueError", val |-> Decimal(0, 0)]
     ELSE [err |-> "",
           val |-> Decimal(IF IsNegative(s) THEN -DigitsValue(ds) ELSE DigitsValue(ds), e)]

\* ------------------------------------------------------------------------
\* meter_reading.py
\* ------------------------------------------------------------------------
MeterReading(timestamp, kwh) == [timestamp |-> timestamp, kwh |-> kwh]

\* ------------------------------------------------------------------------
\* parse.py: marker tokens
\* ------------------------------------------------------------------------
T3 == <<"3">>
T8 == <<"8">>
T9 == <<"9">>
T10 == <<"1", "0">>
T11 == <<"1", "1">>
T24 == <<"2", "4">>

UNEXPECTED_EXIT_COMBINED_LIST == "Unexpected exit from combined list processing."

\* while idx >= 0 and csvd[idx] not in stop: idx -= 1
RECURSIVE ScanBack(_, _, _)
ScanBack(csvd, idx, stop) ==
  IF idx >= 0 /\ Item(csvd, idx) \notin stop THEN ScanBack(csvd, idx - 1, stop) ELSE idx

\* timedelta(hours=h) added to a datetime
AddHours(ts, h) ==
  LET r == AddSeconds(ts, h * SecondsPerHour)
  IN IF DateTimeInRange(r) THEN [err |-> "", dt |-> r]
     ELSE [err |-> "OverflowError", dt |-> Epoch]

\* ------------------------------------------------------------------------
\* parse.py: _read_combined
\* ------------------------------------------------------------------------
RECURSIVE _read_combined_loop(_, _, _)
_read_combined_loop(csvd, idx0, ret) ==
  IF idx0 < 0 THEN [err |-> "", warned |-> FALSE, ret |-> ret]
  ELSE
    LET idx == ScanBack(csvd, idx0, {T9, T11})
    IN IF idx < 0 THEN [err |-> "", warned |-> TRUE, ret |-> ret]
       ELSE IF ~InRange(csvd, idx - 2) THEN [err |-> "IndexError", warned |-> FALSE, ret |-> <<>>]
       ELSE IF Item(csvd, idx - 2) # T10 THEN [err |-> "", warned |-> TRUE, ret |-> ret]
       ELSE IF Item(csvd, idx) = T11 THEN [err |-> "", warned |-> FALSE, ret |-> ret]
       ELSE
         LET ts == timestamp_from_encoded(Item(csvd, idx - 1))
         IN IF ts.err # "" THEN [err |-> ts.err, warned |-> FALSE, ret |-> <<>>]
            ELSE IF ~InRange(csvd, idx - 3)
            THEN [err |-> "IndexError", warned |-> FALSE, ret |-> <<>>]
            ELSE LET kwh == float(Item(csvd, idx - 3))
                 IN IF kwh.err # "" THEN [err |-> kwh.err, warned |-> FALSE, ret |-> <<>>]
                    ELSE _read_combined_loop(csvd, idx - 1,
                                            Append(ret, MeterReading(ts.dt, kwh.val)))

_read_combined_unreversed(csvd) == _read_combined_loop(csvd, Len(csvd) - 1, <<>>)

_read_combined(csvd) ==
  LET r == _read_combined_loop(csvd, Len(csvd) - 1, <<>>)
  IN [r EXCEPT !.ret = Reverse(r.ret)]

\* ------------------------------------------------------------------------
\* parse.py: _get_list_readings
\* ------------------------------------------------------------------------
\* j = (int(csvd[idx]) // 3) + 2
BackRefIndex_off(v) == (v \div 3) + 1

BackRefIndex(v) == (v \div 3) + 2

\* combined_readings[(int(tok) // 3) + 2]
Deref_nowrap(tok, combined_readings) ==
  LET v == int(tok)
  IN IF v.err # "" THEN [err |-> v.err, r |-> MeterReading(Epoch, Decimal(0, 0))]
     ELSE IF BackRefIndex(v.val) < 0 \/ BackRefIndex(v.val) >= Len(combined_readings)
     THEN [err |-> "IndexError", r |-> MeterReading(Epoch, Decimal(0, 0))]
     ELSE [err |-> "", r |-> Item(combined_readings, BackRefIndex(v.val))]

Deref(tok, combined_readings) ==
  LET v == int(tok)
  IN IF v.err # "" THEN [err |-> v.err, r |-> MeterReading(Epoch, Decimal(0, 0))]
     ELSE IF ~InRange(combined_readings, BackRefIndex(v.val))
     THEN [err |-> "IndexError", r |-> MeterReading(Epoch, Decimal(0, 0))]
     ELSE [err |-> "", r |-> Item(combined_readings, BackRefIndex(v.val))]

\* lines 82-89: the timestamp slot at idx; .idx is the value slot
TimestampSlot(csvd, idx, combined_readings) ==
  IF Item(csvd, idx) = T9
  THEN LET ts == timestamp_from_encoded(Item(csvd, idx - 1))
       IN [err |-> ts.err, dt |-> ts.dt, idx |-> idx - 2]
  ELSE LET d == Deref(Item(csvd, idx), combined_readings)
       IN [err |-> d.err, dt |-> d.r.timestamp, idx |-> idx - 1]

\* lines 92-97: the value slot at idx
ValueSlot(csvd, idx, combined_readings) ==
  IF Item(csvd, idx) = T10
  THEN float(Item(csvd, idx - 1))
  ELSE LET d == Deref(Item(csvd, idx), combined_readings)
       IN [err |-> d.err, val |-> d.r.kwh]

RECURSIVE _get_list_readings_loop(_, _, _, _, _)
\* lines 82-98: the entry whose "8" stands at idx, its timestamp slot read as t
_get_list_readings_entry(csvd, idx, combined_readings, offset, readings, t) ==
  LET ts == AddHours(t.dt, offset)
      kwh == ValueSlot(csvd, t.idx, combined_readings)
  IN IF t.err # "" THEN [err |-> t.err, idx |-> idx, readings |-> <<>>]
     ELSE IF ts.err # "" THEN [err |-> ts.err, idx |-> idx, readings |-> <<>>]
     ELSE IF kwh.err # "" THEN [err |-> kwh.err, idx |-> idx, readings |-> <<>>]
     ELSE _get_list_readings_loop(csvd, t.idx, combined_readings, offset,
                                  Append(readings, MeterReading(ts.dt, kwh.val)))

_get_list_readings_loop(csvd, idx0, combined_readings, offset, readings) ==
  IF idx0 < 0 THEN [err |-> "", idx |-> idx0, readings |-> readings]
  ELSE
    LET idx == ScanBack(csvd, idx0, {T8, T24, T3})
    IN IF idx < 8 \/ Item(csvd, idx) # T8
       THEN [err |-> "", idx |-> idx, readings |-> readings]
       ELSE _get_list_readings_entry(csvd, idx, combined_readings, offset, readings,
                                     TimestampSlot(csvd, idx - 6, combined_readings))

\* ------------------------------------------------------------------------
\* Python str helpers
\* ------------------------------------------------------------------------
Contains(s, c) == \E i \in 1..Len(s) : s[i] = c

\* a in b, for str a and b
IsSubstring(a, b) == \E i \in 0..(Len(b) - Len(a)) : SubSeq(b, i + 1, i + Len(a)) = a

\* s[a:b] for a >= 0 and any b
PySlice(s, a, b) ==
  LET hi == IF b < 0 THEN Len(s) + b ELSE IF b > Len(s) THEN Len(s) ELSE b
  IN IF a >= hi THEN <<>> ELSE SubSeq(s, a + 1, hi)

Whitespace == {" ", "\n", "\t", "\r"}

RECURSIVE lstrip(_, _)
lstrip(s, chars) == IF s # <<>> /\ s[1] \in chars THEN lstrip(Tail(s), chars) ELSE s

RECURSIVE rstrip(_, _)
rstrip(s, chars) ==
  IF s # <<>> /\ s[Len(s)] \in chars THEN rstrip(SubSeq(s, 1, Len(s) - 1), chars) ELSE s

strip(s) == rstrip(lstrip(s, Whitespace), Whitespace)

\* s.replace(old, new) for an old that cannot overlap itself: the text of
\* positions lo..hi after replacement (a match starting at i gives new, the
\* other positions of a match give nothing)
RECURSIVE replace_range(_, _, _, _, _)
replace_range(s, old, new, lo, hi) ==
  LET match(i) == i >= 1 /\ i + Len(old) - 1 <= Len(s) /\ SubSeq(s, i, i + Len(old) - 1) = old
      mid == (lo + hi) \div 2
  IN IF lo > hi THEN <<>>
     ELSE IF lo = hi
     THEN IF match(lo) THEN new
          ELSE IF \E i \in (lo - Len(old) + 1)..(lo - 1) : match(i) THEN <<>>
          ELSE <<s[lo]>>
     ELSE replace_range(s, old, new, lo, mid) \o replace_range(s, old, new, mid + 1, hi)

replace(s, old, new) == replace_range(s, old, new, 1, Len(s))

\* s.rfind(c), a 0-based index or -1
rfind(s, c) ==
  LET at == {i \in 1..Len(s) : s[i] = c}
  IN IF at = {} THEN -1 ELSE (CHOOSE i \in at : \A j \in at : j <= i) - 1

\* the positions lo..hi of s that hold sep, ascending
RECURSIVE positions(_, _, _, _)
positions(s, sep, lo, hi) ==
  IF lo > hi THEN <<>>
  ELSE IF lo = hi THEN (IF s[lo] = sep THEN <<lo>> ELSE <<>>)
  ELSE positions(s, sep, lo, (lo + hi) \div 2) \o positions(s, sep, ((lo + hi) \div 2) + 1, hi)

\* s.split(sep) for a one-character sep
split(s, sep) ==
  LET at == positions(s, sep, 1, Len(s))
  IN [k \in 1..(Len(at) + 1) |->
        SubSeq(s, IF k = 1 THEN 1 ELSE at[k - 1] + 1, IF k > Len(at) THEN Len(s) ELSE at[k] - 1)]

\* sep.join(l)
RECURSIVE join(_, _)
join(sep, l) ==
  IF l = <<>> THEN <<>>
  ELSE IF Len(l) = 1 THEN l[1]
  ELSE l[1] \o sep \o join(sep, Tail(l))

\* ------------------------------------------------------------------------
\* parse.py: _extract_meters
\* ------------------------------------------------------------------------
COLUMN == <<"\"", "c", "o", "l", "u", "m", "n", "\"">>

\* [i for i, n in enumerate(meta_csv) if "+" in n], 0-based
RECURSIVE start_indices(_, _)
start_indices(meta_csv, i) ==
  IF i > Len(meta_csv) THEN <<>>
  ELSE (IF Contains(meta_csv[i], "+") THEN <<i - 1>> ELSE <<>>) \o start_indices(meta_csv, i + 1)

\* as segment_names, the meter name emitted ahead of its submeter names
RECURSIVE segment_names_keep_meter(_, _, _, _, _)
segment_names_keep_meter(vs, i, meter_name, submeter_names, ret) ==
  IF i > Len(vs) THEN Append(ret, meter_name) \o submeter_names
  ELSE IF Contains(vs[i], ".") \/ Contains(vs[i], "#")
  THEN segment_names_keep_meter(vs, i + 1, meter_name, submeter_names, ret)
  ELSE LET v == PySlice(vs[i], 1, -1)
       IN IF IsSubstring(meter_name, v)
          THEN segment_names_keep_meter(vs, i + 1, meter_name, Append(submeter_names, v), ret)
          ELSE IF Contains(v, "-")
          THEN segment_names_keep_meter(vs, i + 1, meter_name, submeter_names, ret)
          ELSE segment_names_keep_meter(vs, i + 1, v, <<>>,
                                        Append(ret, meter_name) \o submeter_names)

\* the loop "for v in meta_csv[start+2:end]" from its i-th token on, and the
\* flush after it
RECURSIVE segment_names(_, _, _, _, _)
segment_names(vs, i, meter_name, submeter_names, ret) ==
  IF i > Len(vs)
  THEN IF submeter_names # <<>> THEN ret \o submeter_names ELSE Append(ret, meter_name)
  ELSE IF Contains(vs[i], ".") \/ Contains(vs[i], "#")
  THEN segment_names(vs, i + 1, meter_name, submeter_names, ret)
  ELSE LET v == PySlice(vs[i], 1, -1)
       IN IF IsSubstring(meter_name, v)
          THEN segment_names(vs, i + 1, meter_name, Append(submeter_names, v), ret)
          ELSE IF Contains(v, "-")
          THEN segment_names(vs, i + 1, meter_name, submeter_names, ret)
          ELSE segment_names(vs, i + 1, v, <<>>,
                             IF submeter_names # <<>> THEN ret \o submeter_names
                             ELSE Append(ret, meter_name))

\* the loop "for start, end in zip(indices, indices[1:])" from its k-th pair on
RECURSIVE segments(_, _, _, _)
segments(meta_csv, indices, k, ret) ==
  IF k >= Len(indices) THEN [err |-> "", ret |-> ret]
  ELSE LET start == indices[k]
           end == indices[k + 1]
       IN IF start + 1 >= Len(meta_csv) THEN [err |-> "IndexError", ret |-> <<>>]
          ELSE segments(meta_csv, indices, k + 1,
                        segment_names(PySlice(meta_csv, start + 2, end), 1,
                                      PySlice(meta_csv[start + 2], 1, -1), <<>>, ret))

\* as _extract_meters, with any token holding the word column as end marker
_extract_meters_any_column(meta_csv) ==
  LET indices == start_indices(meta_csv, 1)
      columns == {i \in 1..Len(meta_csv) : IsSubstring(PySlice(COLUMN, 1, -1), meta_csv[i])}
  IN IF indices = <<>> THEN [err |-> "InvalidMetadata", ret |-> <<>>]
     ELSE IF columns = {} THEN [err |-> "InvalidMetadata", ret |-> <<>>]
     ELSE segments(meta_csv,
                   Append(indices, (CHOOSE i \in columns : \A j \in columns : i <= j) - 1),
                   1, <<>>)

_extract_meters(meta_csv) ==
  LET indices == start_indices(meta_csv, 1)
      columns == {i \in 1..Len(meta_csv) : meta_csv[i] = COLUMN}
  IN IF indices = <<>> THEN [err |-> "InvalidMetadata", ret |-> <<>>]
     ELSE IF columns = {} THEN [err |-> "InvalidMetadata", ret |-> <<>>]
     ELSE segments(meta_csv,
                   Append(indices, (CHOOSE i \in columns : \A j \in columns : i <= j) - 1),
                   1, <<>>)

\* ------------------------------------------------------------------------
\* parse.py: _transform_data_to_list
\* ------------------------------------------------------------------------
OK_PREFIX == <<"/", "/", "O", "K", "[">>

CONCAT == <<"]", ".", "c", "o", "n", "c", "a", "t", "(", "[">>

\* lines 199-203: strip, the three replace calls, rstrip(')')
normalise(data) ==
  rstrip(replace(replace(replace(strip(data), CONCAT, <<",">>),
                         <<"]", ")">> \o SubSeq(CONCAT, 2, Len(CONCAT)), <<",">>),
                 <<"]", ",", "[">>, <<",">>),
         {")"})

_transform_data_to_list_unreversed(data0) ==
  LET data == normalise(data0)
      metadata_start == rfind(data, "[")
      meter_names == _extract_meters(split(PySlice(data, metadata_start, -4), ","))
  IN IF PySlice(data0, 0, 5) # OK_PREFIX
     THEN [err |-> "InvalidData", meter_names |-> <<>>, csvd |-> <<>>]
     ELSE IF data = <<>> THEN [err |-> "IndexError", meter_names |-> <<>>, csvd |-> <<>>]
     ELSE IF data[Len(data)] # "]"
     THEN [err |-> "InvalidData", meter_names |-> <<>>, csvd |-> <<>>]
     ELSE IF metadata_start = 4
     THEN [err |-> "InvalidMetadata", meter_names |-> <<>>, csvd |-> <<>>]
     ELSE IF meter_names.err # ""
     THEN [err |-> meter_names.err, meter_names |-> <<>>, csvd |-> <<>>]
     ELSE [err |-> "", meter_names |-> meter_names.ret,
           csvd |-> split(PySlice(data, 5, metadata_start), ",")]

_transform_data_to_list(data0) ==
  LET data == normalise(data0)
      metadata_start == rfind(data, "[")
      meter_names == _extract_meters(split(PySlice(data, metadata_start, -4), ","))
  IN IF PySlice(data0, 0, 5) # OK_PREFIX
     THEN [err |-> "InvalidData", meter_names |-> <<>>, csvd |-> <<>>]
     ELSE IF data = <<>> THEN [err |-> "IndexError", meter_names |-> <<>>, csvd |-> <<>>]
     ELSE IF data[Len(data)] # "]"
     THEN [err |-> "InvalidData", meter_names |-> <<>>, csvd |-> <<>>]
     ELSE IF metadata_start = 4
     THEN [err |-> "InvalidMetadata", meter_names |-> <<>>, csvd |-> <<>>]
     ELSE IF meter_names.err # ""
     THEN [err |-> meter_names.err, meter_names |-> <<>>, csvd |-> <<>>]
     ELSE [err |-> "", meter_names |-> Reverse(meter_names.ret),
           csvd |-> split(PySlice(data, 5, metadata_start), ",")]

\* ------------------------------------------------------------------------
\* State
\* ------------------------------------------------------------------------
VARIABLES
  time_offset,        \* time_utils.time_offset, the module global
  parse_imported,     \* has smarthubp.parse been imported
  parse_time_offset,  \* the name time_offset bound in parse.py by its from-import
  codec,              \* the chain of codec calls made by the caller, newest last
  call,               \* the last direct call of a decoder function and its result
  pc,                 \* where readings_from_reading_service stands
  input,              \* what its payload was built from
  meter_names,        \* its local meter_names, names still to be popped
  csvd,               \* its local csvd
  combined_readings,  \* its local combined_readings
  reading_gen,        \* the generator object: started, and its local idx
  reading_lists,      \* the dict being built, meter name -> list of readings
  log,                \* records given to logging.warning
  error               \* the exception that ended it, "" if none

module_vars == <<time_offset, parse_imported, parse_time_offset>>

service_vars ==
  <<pc, input, meter_names, csvd, combined_readings, reading_gen, reading_lists, log, error>>

vars == <<module_vars, codec, call, service_vars>>

_get_list_readings_chronological(csvd_, idx, combined_readings_) ==
  LET r == _get_list_readings_loop(csvd_, idx, combined_readings_, parse_time_offset, <<>>)
  IN [r EXCEPT !.readings = Reverse(r.readings)]

_get_list_readings(csvd_, idx, combined_readings_) ==
  _get_list_readings_loop(csvd_, idx, combined_readings_, parse_time_offset, <<>>)

\* ------------------------------------------------------------------------
\* parse.py: meter_reading_generator
\* ------------------------------------------------------------------------
\* while csvd[idx] != '8': idx -= 1
RECURSIVE ScanToEntryEnd(_, _)
ScanToEntryEnd(csvd_, idx) ==
  IF ~InRange(csvd_, idx) THEN [err |-> "IndexError", idx |-> idx]
  ELSE IF Item(csvd_, idx) # T8 THEN ScanToEntryEnd(csvd_, idx - 1)
  ELSE [err |-> "", idx |-> idx]

\* one next() of the generator: lines 114-115 on the first, then the loop of
\* lines 117-126 up to its yield
\* as meter_reading_generator, a "3" passed over in search of an earlier "24"
meter_reading_generator_past_3(csvd_, combined_readings_, gen) ==
  LET idx0 == IF gen.started THEN gen.idx ELSE ScanBack(csvd_, Len(csvd_) - 1, {T24})
      idx == IF idx0 >= 0 /\ Item(csvd_, idx0) = T3 THEN ScanBack(csvd_, idx0 - 1, {T24}) ELSE idx0
      none == [err |-> "", idx |-> idx, readings |-> <<>>]
  IN IF idx < 0 THEN [kind |-> "stop"] @@ none
     ELSE IF Item(csvd_, idx) # T24 THEN [kind |-> "raise"] @@ [none EXCEPT !.err = "AssertionError"]
     ELSE LET e == ScanToEntryEnd(csvd_, idx)
              r == _get_list_readings(csvd_, e.idx, combined_readings_)
          IN IF e.err # "" THEN [kind |-> "raise"] @@ [none EXCEPT !.err = e.err]
             ELSE IF r.err # "" THEN [kind |-> "raise"] @@ [none EXCEPT !.err = r.err]
             ELSE [kind |-> "yield"] @@ r

meter_reading_generator(csvd_, combined_readings_, gen) ==
  LET idx == IF gen.started THEN gen.idx ELSE ScanBack(csvd_, Len(csvd_) - 1, {T24})
      none == [err |-> "", idx |-> idx, readings |-> <<>>]
  IN IF idx < 0 \/ Item(csvd_, idx) = T3 THEN [kind |-> "stop"] @@ none
     ELSE IF Item(csvd_, idx) # T24 THEN [kind |-> "raise"] @@ [none EXCEPT !.err = "AssertionError"]
     ELSE LET e == ScanToEntryEnd(csvd_, idx)
              r == _get_list_readings(csvd_, e.idx, combined_readings_)
          IN IF e.err # "" THEN [kind |-> "raise"] @@ [none EXCEPT !.err = e.err]
             ELSE IF r.err # "" THEN [kind |-> "raise"] @@ [none EXCEPT !.err = r.err]
             ELSE [kind |-> "yield"] @@ r

\* ------------------------------------------------------------------------
\* The scanners with the positions they read
\* ------------------------------------------------------------------------
Min(a, b) == IF a <= b THEN a ELSE b

\* the lowest index _read_combined subscripts csvd with from idx0 on
\* (lines 31, 34, 39, 42, 43), Len(csvd) if it reads nothing
RECURSIVE _read_combined_low(_, _)
_read_combined_low(csvd_, idx0) ==
  IF idx0 < 0 THEN Len(csvd_)
  ELSE
    LET idx == ScanBack(csvd_, idx0, {T9, T11})
    IN IF idx < 0 THEN 0
       ELSE IF ~InRange(csvd_, idx - 2) THEN idx - 2
       ELSE IF Item(csvd_, idx - 2) # T10 \/ Item(csvd_, idx) = T11 THEN idx - 2
       ELSE IF timestamp_from_encoded(Item(csvd_, idx - 1)).err # "" THEN idx - 2
       ELSE IF ~InRange(csvd_, idx - 3) THEN idx - 3
       ELSE IF float(Item(csvd_, idx - 3)).err # "" THEN idx - 3
       ELSE Min(idx - 3, _read_combined_low(csvd_, idx - 1))

\* the lowest index _get_list_readings subscripts csvd with from idx0 on
\* (lines 78, 79, 83, 84, 87, 93, 94, 96), Len(csvd) if it reads nothing
RECURSIVE _get_list_readings_low(_, _, _)
\* from an entry on, its timestamp slot read as t
_get_list_readings_entry_low(csvd_, combined_readings_, t) ==
  LET value_low == IF Item(csvd_, t.idx) = T10 THEN t.idx - 1 ELSE t.idx
  IN IF t.err # "" \/ AddHours(t.dt, parse_time_offset).err # "" THEN t.idx + 1
     ELSE IF ValueSlot(csvd_, t.idx, combined_readings_).err # "" THEN value_low
     ELSE Min(value_low, _get_list_readings_low(csvd_, t.idx, combined_readings_))

_get_list_readings_low(csvd_, idx0, combined_readings_) ==
  IF idx0 < 0 THEN Len(csvd_)
  ELSE
    LET idx == ScanBack(csvd_, idx0, {T8, T24, T3})
    IN IF idx < 8 \/ Item(csvd_, idx) # T8 THEN (IF idx < 0 THEN 0 ELSE idx)
       ELSE _get_list_readings_entry_low(csvd_, combined_readings_,
                                         TimestampSlot(csvd_, idx - 6, combined_readings_))

\* the position the outer loop of the generator examines when resumed
Examined(csvd_, gen) ==
  IF gen.started THEN gen.idx ELSE ScanBack(csvd_, Len(csvd_) - 1, {T24})

\* the lowest index one resumption of the generator subscripts csvd with
\* (lines 115, 118, 120, 124 and the call of line 125)
generator_low(csvd_, combined_readings_, gen) ==
  LET idx == Examined(csvd_, gen)
      e == ScanToEntryEnd(csvd_, idx)
  IN IF idx < 0 THEN (IF gen.started THEN Len(csvd_) ELSE 0)
     ELSE IF Item(csvd_, idx) # T24 THEN idx
     ELSE IF e.err # "" THEN -Len(csvd_) - 1
     ELSE Min(e.idx, _get_list_readings_low(csvd_, e.idx, combined_readings_))

\* what a caller iterating the generator has seen after one more resumption
\* g of it, which examined idx and read down to low
Seen(acc, g, idx, low) ==
  [gen |-> [started |-> TRUE, idx |-> g.idx],
   done |-> g.kind # "yield",
   err |-> g.err,
   positions |-> IF idx >= 0 THEN Append(acc.positions, idx) ELSE acc.positions,
   lists |-> IF g.kind = "yield" THEN Append(acc.lists, g.readings) ELSE acc.lists,
   low |-> Min(acc.low, low)]

\* one more next() on the generator acc.gen stands for
Resume(csvd_, combined_readings_, acc) ==
  Seen(acc,
       meter_reading_generator(csvd_, combined_readings_, acc.gen),
       Examined(csvd_, acc.gen),
       generator_low(csvd_, combined_readings_, acc.gen))

\* ------------------------------------------------------------------------
\* Inputs: streams built the way tests/test_parse.py builds them
\* ------------------------------------------------------------------------
\* datetime(2015, 3, 1, 12), the first timestamp of test_combined_read
BaseTime == 1425211200

ValueTokens == << <<"0", ".", "5">>, <<"1", ".", "5">>, <<"2", ".", "2", "5">>, <<"3", ".", "0">> >>

RECURSIVE NatStr(_)
NatStr(n) == IF n < 10 THEN <<Digits[n + 1]>> ELSE Append(NatStr(n \div 10), Digits[(n % 10) + 1])

\* str(n) of an int
str(n) == IF n < 0 THEN <<"-">> \o NatStr(-n) ELSE NatStr(n)

TimeAt(i) == DateTime(FALSE, IntToBig(BaseTime + SecondsPerHour * i))

Filler == << <<"0">>, <<"0">>, <<"1">>, <<"0">>, <<"0">> >>

\* _generate_entry(reading, timestamp)
_generate_entry(reading, timestamp) ==
  <<reading, T10, encoded_from_timestamp(timestamp).tok, T9>> \o Filler \o <<T8>>

\* _generate_reference(idx)
_generate_reference(idx) ==
  LET file_idx == (-idx * 3) - 7
  IN <<str(file_idx), str(file_idx - 1)>> \o Filler \o <<T8>>

\* An entry is described by its two slots: the timestamp slot is explicit
\* (tk = "x", tv a time index) or a back-reference (tk = "r", tv the
\* reference integer), and likewise the value slot (vk, vv).
Entry(tk, tv, vk, vv) == [tk |-> tk, tv |-> tv, vk |-> vk, vv |-> vv]

EntryTokens(e) ==
  IF e.vk = "x" /\ e.tk = "x" THEN _generate_entry(ValueTokens[e.vv], TimeAt(e.tv))
  ELSE IF e.vk = "r" /\ e.tk = "r" /\ e.tv = e.vv - 1 /\ e.vv <= -7 /\ (-e.vv - 7) % 3 = 0
  THEN _generate_reference((-e.vv - 7) \div 3)
  ELSE (IF e.vk = "x" THEN <<ValueTokens[e.vv], T10>> ELSE <<str(e.vv)>>)
       \o (IF e.tk = "x" THEN <<encoded_from_timestamp(TimeAt(e.tv)).tok, T9>> ELSE <<str(e.tv)>>)
       \o Filler \o <<T8>>

RefValues == (-3 * MaxCombined - 7)..2

ExplicitEntries == {Entry("x", t, "x", v) : t \in {0, 1}, v \in {1, 2}}

SingleEntries ==
  ExplicitEntries
  \cup {Entry("r", r, "x", 3) : r \in RefValues}
  \cup {Entry("x", 2, "r", r) : r \in RefValues}
  \cup {Entry("r", r, "r", r) : r \in RefValues}
  \cup {Entry("r", r, "r", -7) : r \in RefValues}

MenuEntries ==
  { Entry("x", 0, "x", 1), Entry("r", -8, "r", -7),
    Entry("r", -10, "x", 2), Entry("x", 3, "r", -10) }

EntryLists == {<<e>> : e \in SingleEntries} \cup SeqsUpTo(MenuEntries, MaxEntries)

\* the combined list handed to _get_list_readings: reading i has time index
\* and value index i
CombinedSpec(n) == [i \in 1..n |-> [t |-> i, v |-> i]]

Materialise(spec) == [i \in 1..Len(spec) |-> MeterReading(TimeAt(spec[i].t), float(ValueTokens[spec[i].v]).val)]

ListPrefixes == { <<>>, << <<"1", "3">>, <<"1", "2">> >> }

CombinedPrefixes ==
  { <<>>, << <<"1", "3">>, <<"1", "2">> >>, << <<"1", "3">>, <<"1", "2">>, T11 >>,
    <<T11>>, <<T10, <<"1", "2">>, T11>> }

CombinedEntryLists == SeqsUpTo(ExplicitEntries, MaxCombined)

\* ------------------------------------------------------------------------
\* Inputs: list-format payloads
\* ------------------------------------------------------------------------
Quoted(s) == <<"\"">> \o s \o <<"\"">>

Name_m1 == <<"m", "1">>
Name_m2 == <<"m", "2">>
Name_m4a == <<"m", "4", " ", "-", " ", "a">>
Name_m4b == <<"m", "4", " ", "-", " ", "b">>

MetaHead == << Quoted(<<"p", "r", "e">>), Quoted(<<"x", "+", "1">>), Quoted(Name_m1), Quoted(<<"c", ".", "n">>) >>

MetaEnd == << COLUMN, <<"e", "n", "d">> >>

\* metadata blocks and the meter names they hold, in document order
Metas ==
  << [tokens |-> MetaHead \o MetaEnd, names |-> <<Name_m1>>],
     [tokens |-> MetaHead \o << <<"x", "+", "2">>, Quoted(Name_m2), Quoted(<<"#", "F">>) >> \o MetaEnd,
      names |-> <<Name_m1, Name_m2>>],
     [tokens |-> MetaHead \o << <<"x", "+", "3">>, Quoted(<<"m", "4">>), Quoted(Name_m4a),
                                Quoted(<<"s", ".", "c">>), Quoted(Name_m4b) >> \o MetaEnd,
      names |-> <<Name_m1, Name_m4a, Name_m4b>>] >>

\* per-meter lists, each written in ascending time order
ListMenu ==
  << <<Entry("x", 0, "x", 1), Entry("x", 1, "x", 4)>>,
     <<Entry("r", -11, "r", -10), Entry("r", -8, "r", -7)>>,
     <<Entry("x", 2, "x", 3)>> >>

\* one to MaxLists lists, taken from the menu in turn from any starting point
ListsInputs ==
  { [k \in 1..n |-> ListMenu[((k + r) % Len(ListMenu)) + 1]] : n \in 1..MaxLists, r \in 1..Len(ListMenu) }

\* the combined list of a payload: MaxCombined entries in ascending time order
CombinedEntries == [i \in 1..MaxCombined |-> Entry("x", i - 1, "x", i)]

Stamp == encoded_from_timestamp(TimeAt(0)).tok

\* what a stream may hold ahead of its "3": nothing, or one more list with
\* its stamps and its "24"
EarlierList ==
  Flatten([i \in 1..Len(ListMenu[3]) |-> EntryTokens(ListMenu[3][i])]) \o <<Stamp, Stamp, T24>>

ServiceInputs ==
  { [meta |-> m, lists |-> ls, combined |-> CombinedEntries, concat |-> c, before |-> <<>>] :
      m \in 1..Len(Metas), ls \in ListsInputs, c \in BOOLEAN }
  \cup
  { [meta |-> m, lists |-> ls, combined |-> CombinedEntries, concat |-> FALSE, before |-> EarlierList] :
      m \in 1..Len(Metas), ls \in ListsInputs }

\* the token stream: "3", each list followed by two datetime stamps and its
\* "24", then "11" and the combined list
StreamOf(in) ==
  in.before \o <<T3>>
  \o Flatten([k \in 1..Len(in.lists) |->
                Flatten([i \in 1..Len(in.lists[k]) |-> EntryTokens(in.lists[k][i])])
                \o <<Stamp, Stamp, T24>>])
  \o <<T11>>
  \o Flatten([i \in 1..Len(in.combined) |-> EntryTokens(in.combined[i])])

\* the payload: //OK[tokens,[metadata],0,7] on one line, the token list cut
\* into two arrays joined by concat when in.concat
PayloadOf(in) ==
  LET toks == StreamOf(in)
      body == IF in.concat
              THEN join(<<",">>, SubSeq(toks, 1, 2)) \o CONCAT
                   \o join(<<",">>, SubSeq(toks, 3, Len(toks)))
              ELSE join(<<",">>, toks)
  IN OK_PREFIX \o body \o <<",", "[">> \o join(<<",">>, Metas[in.meta].tokens)
     \o <<"]", ",", "0", ",", "7", "]">> \o (IF in.concat THEN <<")">> ELSE <<>>) \o <<"\n">>

\* ------------------------------------------------------------------------
\* Inputs: metadata lists
\* ------------------------------------------------------------------------
Name_m4 == <<"m", "4">>

START_1 == Quoted(<<"x", "+", "1">>)

NET_METER_COLUMN == Quoted(<<"n", "e", "t", "-", "m", "e", "t", "e", "r", "-", "c", "o", "l", "u", "m", "n">>)

\* a start marker, two meter names, a submeter name and a class name
MetaTokens ==
  { START_1, Quoted(Name_m1), Quoted(Name_m4), Quoted(Name_m4a), Quoted(<<"c", ".", "n">>) }

\* the bodies: the tokens in every order, and a colour and a name with a
\* dash after a meter and between two names
MetaBodies ==
  LET skipped == { Quoted(<<"#", "F">>), Quoted(<<"o", "-", "n">>) }
  IN SeqsUpTo(MetaTokens, MaxMeta)
     \cup { <<START_1, Quoted(Name_m4), x>> : x \in skipped }
     \cup { <<START_1, Quoted(Name_m4), x, Quoted(Name_m4a)>> : x \in skipped }
     \cup { <<START_1, Quoted(Name_m1), x, Quoted(Name_m4)>> : x \in skipped }

\* what stands before and after the tokens: nothing, the end marker, a token
\* that only contains the word column
MetaFrames ==
  { [pre |-> <<>>, end |-> <<COLUMN>>],
    [pre |-> <<Quoted(<<"p", "r", "e">>)>>, end |-> <<COLUMN, Quoted(<<"e", "n", "d">>)>>],
    [pre |-> <<Quoted(<<"p", "r", "e">>)>>, end |-> <<NET_METER_COLUMN>>],
    [pre |-> <<>>, end |-> <<>>] }

MetaInputs == {f.pre \o b \o f.end : f \in MetaFrames, b \in MetaBodies}

\* ------------------------------------------------------------------------
\* Inputs: token streams of any shape
\* ------------------------------------------------------------------------
Markers == {T3, T8, T9, T10, T11, T24}

\* an entry that is the whole stream; an entry after "3" and before its
\* stamps and "24"; an entry after "10", a token and "11"
LongStreams ==
  { <<T10, Stamp, T9>> \o Filler \o <<T8>>,
    <<T3>> \o _generate_entry(ValueTokens[1], TimeAt(0)) \o <<Stamp, Stamp, T24>>,
    <<T10, <<"1", "2">>, T11>> \o _generate_entry(ValueTokens[1], TimeAt(0)) }

Streams == SeqsUpTo(Markers, MaxStream) \cup LongStreams

Scanners == {"_read_combined", "_get_list_readings", "meter_reading_generator"}

TokenChars == {"A", "V", "_", "!"}

Tok_VdPMRgA == <<"V", "d", "P", "M", "R", "g", "A">>
Tok_VdPM_bang_RgA == <<"V", "d", "P", "M", "!", "R", "g", "A">>
\* the tokens of test_time_utils.py, 'VdPM!RgA' with a character outside the
\* alphabet, and tokens of 7, 8 and 9 characters at the edge of the time range
LongTokens ==
  { Tok_VdPMRgA, Tok_VdPM_bang_RgA,
    <<"Y", "G", "o", "Q", "F", "$", "A">>,
    <<"Y", "G", "o", "u", "_", "g", "g">>,
    <<"3", "h", "v", "v", "M", "E", "A">>,
    <<"4", "h", "v", "v", "M", "E", "A", "A">>,
    <<"i", "n", "v", "a", "l", "i", "d", "_", "s", "t", "r", "i", "n", "g">>,
    <<"i", "n", "v", "a", "l", "i", "d", "_", "i", "n", "p", "u", "t">>,
    <<"a">>,
    [i \in 1..8 |-> "_"], [i \in 1..7 |-> "_"], [i \in 1..9 |-> "A"] }

TokenInputs == SeqsUpTo(TokenChars, MaxTokenLen) \cup LongTokens

TimeInputs ==
  { Epoch, DateTime(FALSE, <<1>>), TimeAt(0), DateTime(FALSE, MaxTimestamp),
    DateTime(TRUE, <<1>>), DateTime(TRUE, IntToBig(SecondsPerHour)),
    DateTime(TRUE, MinTimestampMag) }

Offsets == {-MaxOffset, 0, MaxOffset}

\* ------------------------------------------------------------------------
\* Initial state and actions
\* ------------------------------------------------------------------------
NoCall == [fn |-> "none"]

NoInput == [meta |-> 0, lists |-> <<>>, combined |-> <<>>, concat |-> FALSE, before |-> <<>>]

NoGenerator == [started |-> FALSE, idx |-> -1]

ServiceInit ==
  /\ pc = "idle"
  /\ input = NoInput
  /\ meter_names = <<>>
  /\ csvd = <<>>
  /\ combined_readings = <<>>
  /\ reading_gen = NoGenerator
  /\ reading_lists = <<>>
  /\ log = <<>>
  /\ error = ""

Init ==
  /\ time_offset = 0
  /\ parse_imported = FALSE
  /\ parse_time_offset = 0
  /\ codec = <<>>
  /\ call = NoCall
  /\ ServiceInit

\* The program is single-threaded: a call is made when no other call is in
\* progress and its result has been taken by the caller.
Idle == codec = <<>> /\ call = NoCall /\ pc = "idle"

\* the caller is done with the results of its last calls
Return ==
  /\ ~Idle
  /\ pc \in {"idle", "done", "failed"}
  /\ codec' = <<>>
  /\ call' = NoCall
  /\ pc' = "idle"
  /\ input' = NoInput
  /\ meter_names' = <<>>
  /\ csvd' = <<>>
  /\ combined_readings' = <<>>
  /\ reading_gen' = NoGenerator
  /\ reading_lists' = <<>>
  /\ log' = <<>>
  /\ error' = ""
  /\ UNCHANGED module_vars

\* time_utils.set_import_time_offset(hours)
set_import_time_offset(hours) ==
  /\ Idle
  /\ time_offset' = hours
  /\ UNCHANGED <<parse_imported, parse_time_offset, codec, call, service_vars>>

\* import smarthubp.parse: "from smarthubp.time_utils import ..., time_offset"
\* binds the value the global has at that moment to a name of parse.py
ImportParse ==
  /\ Idle
  /\ ~parse_imported
  /\ parse_imported' = TRUE
  /\ parse_time_offset' = time_offset
  /\ UNCHANGED <<time_offset, codec, call, service_vars>>

DecodeCall(s) ==
  LET r == timestamp_from_encoded(s)
  IN [fn |-> "timestamp_from_encoded", tok |-> s, dt |-> r.dt, err |-> r.err]

EncodeCall(t) ==
  LET r == encoded_from_timestamp(t)
  IN [fn |-> "encoded_from_timestamp", tok |-> r.tok, dt |-> t, err |-> r.err]

\* timestamp_from_encoded(s) on a token of the caller
CallDecode(s) ==
  /\ Idle
  /\ codec' = <<DecodeCall(s)>>
  /\ call' = NoCall
  /\ UNCHANGED <<module_vars, service_vars>>

\* encoded_from_timestamp(t) on a datetime of the caller
CallEncode(t) ==
  /\ Idle
  /\ codec' = <<EncodeCall(t)>>
  /\ call' = NoCall
  /\ UNCHANGED <<module_vars, service_vars>>

\* encoded_from_timestamp on the datetime the last call returned
EncodeDecoded ==
  /\ codec # <<>> /\ Len(codec) < 3
  /\ codec[Len(codec)].fn = "timestamp_from_encoded" /\ codec[Len(codec)].err = ""
  /\ codec' = Append(codec, EncodeCall(codec[Len(codec)].dt))
  /\ UNCHANGED <<module_vars, call, service_vars>>

\* timestamp_from_encoded on the token the last call returned
DecodeEncoded ==
  /\ codec # <<>> /\ Len(codec) < 3
  /\ codec[Len(codec)].fn = "encoded_from_timestamp" /\ codec[Len(codec)].err = ""
  /\ codec' = Append(codec, DecodeCall(codec[Len(codec)].tok))
  /\ UNCHANGED <<module_vars, call, service_vars>>

\* _get_list_readings(csvd, len(csvd)-1, combined), as MeterListCase calls it
CallGetListReadings(prefix, entries, n) ==
  LET stream == prefix \o <<T24>> \o Flatten([i \in 1..Len(entries) |-> EntryTokens(entries[i])])
  IN /\ Idle
     /\ parse_imported
     /\ call' = [fn |-> "_get_list_readings", prefix |-> prefix, entries |-> entries,
                 combined |-> CombinedSpec(n),
                 res |-> _get_list_readings(stream, Len(stream) - 1, Materialise(CombinedSpec(n)))]
     /\ codec' = <<>>
     /\ UNCHANGED <<module_vars, service_vars>>

\* _read_combined(csvd), as CombinedListCase calls it
CallReadCombined(prefix, entries) ==
  LET stream == prefix \o Flatten([i \in 1..Len(entries) |-> EntryTokens(entries[i])])
  IN /\ Idle
     /\ parse_imported
     /\ call' = [fn |-> "_read_combined", prefix |-> prefix, entries |-> entries,
                 combined |-> <<>>, res |-> _read_combined(stream)]
     /\ codec' = <<>>
     /\ UNCHANGED <<module_vars, service_vars>>

\* _extract_meters(meta_csv), as ExtractMetersCase calls it
CallExtractMeters(meta_csv) ==
  /\ Idle
  /\ parse_imported
  /\ call' = [fn |-> "_extract_meters", meta_csv |-> meta_csv, res |-> _extract_meters(meta_csv)]
  /\ codec' = <<>>
  /\ UNCHANGED <<module_vars, service_vars>>

\* what a scanner called on a whole stream does: its error, the positions
\* it returns or examines, the lowest index it reads; of the generator, its
\* first resumption
Scan(scanner, csvd_) ==
  IF scanner = "_read_combined"
  THEN [err |-> _read_combined(csvd_).err, positions |-> <<>>,
        low |-> _read_combined_low(csvd_, Len(csvd_) - 1)]
  ELSE IF scanner = "_get_list_readings"
  THEN LET r == _get_list_readings(csvd_, Len(csvd_) - 1, <<>>)
       IN [err |-> r.err, positions |-> IF r.err = "" /\ r.idx >= 0 THEN <<r.idx>> ELSE <<>>,
           low |-> _get_list_readings_low(csvd_, Len(csvd_) - 1, <<>>)]
  ELSE Resume(csvd_, <<>>, [gen |-> NoGenerator, positions |-> <<>>, lists |-> <<>>,
                            low |-> Len(csvd_)])

\* one of the three scanners called on a stream, with no combined readings
CallScanner(scanner, csvd_) ==
  /\ Idle
  /\ parse_imported
  /\ call' = [fn |-> "scan", scanner |-> scanner, csvd |-> csvd_, res |-> Scan(scanner, csvd_)]
  /\ codec' = <<>>
  /\ UNCHANGED <<module_vars, service_vars>>

\* list(meter_reading_generator(csvd, [])): the next resumption of the
\* generator, until it stops or raises
ResumeScanner ==
  /\ call.fn = "scan"
  /\ call.scanner = "meter_reading_generator"
  /\ ~call.res.done
  /\ call' = [call EXCEPT !.res = Resume(call.csvd, <<>>, call.res)]
  /\ UNCHANGED <<module_vars, codec, service_vars>>

MORE_METERS == "Identified more meters than could be matched to readings.  There may be a list mismatch."

REMAINING == "Remaining lists"

Warning(msg, names) == [msg |-> msg, names |-> names]

Fail(e) ==
  /\ pc' = "failed"
  /\ error' = e
  /\ UNCHANGED <<input, meter_names, csvd, combined_readings, reading_gen, reading_lists, log>>

\* readings_from_reading_service(data), lines 79-83: the payload is split, the
\* combined list read and the generator created
readings_from_reading_service(in) ==
  /\ Idle
  /\ parse_imported
  /\ \E t \in {_transform_data_to_list(PayloadOf(in))} : \E c \in {_read_combined(t.csvd)} :
     /\ UNCHANGED <<module_vars, codec, call>>
     /\ IF t.err # "" \/ c.err # ""
        THEN /\ pc' = "failed"
             /\ error' = IF t.err # "" THEN t.err ELSE c.err
             /\ input' = in
             /\ UNCHANGED <<meter_names, csvd, combined_readings, reading_gen, reading_lists, log>>
        ELSE /\ pc' = "lists"
             /\ input' = in
             /\ meter_names' = t.meter_names
             /\ csvd' = t.csvd
             /\ combined_readings' = c.ret
             /\ log' = IF c.warned THEN <<Warning(UNEXPECTED_EXIT_COMBINED_LIST, <<>>)>> ELSE <<>>
             /\ UNCHANGED <<reading_gen, reading_lists, error>>

\* line 84, one turn of the dict comprehension: the generator yields a list,
\* meter_names.pop() names it
TakeReadingList ==
  /\ pc = "lists"
  /\ \E g \in {meter_reading_generator(csvd, combined_readings, reading_gen)} :
     LET name == meter_names[Len(meter_names)]
     IN
     /\ g.kind # "stop"
     /\ UNCHANGED <<module_vars, codec, call>>
     /\ IF g.kind = "raise" THEN Fail(g.err)
        ELSE IF meter_names = <<>> THEN Fail("IndexError")
        ELSE /\ meter_names' = SubSeq(meter_names, 1, Len(meter_names) - 1)
             /\ reading_lists' = [n \in DOMAIN reading_lists \cup {name} |->
                                    IF n = name THEN g.readings ELSE reading_lists[n]]
             /\ reading_gen' = [started |-> TRUE, idx |-> g.idx]
             /\ UNCHANGED <<pc, input, csvd, combined_readings, log, error>>

\* lines 84-89: the generator is exhausted, the names left over are reported
\* and the ReadingService(combined_readings, reading_lists) is returned
FinishReadings ==
  /\ pc = "lists"
  /\ meter_reading_generator(csvd, combined_readings, reading_gen).kind = "stop"
  /\ pc' = "done"
  /\ log' = IF meter_names # <<>>
            THEN log \o <<Warning(MORE_METERS, <<>>), Warning(REMAINING, meter_names)>>
            ELSE log
  /\ UNCHANGED <<module_vars, codec, call, input, meter_names, csvd, combined_readings,
                 reading_gen, reading_lists, error>>

Next ==
  \/ \E h \in Offsets : set_import_time_offset(h)
  \/ ImportParse
  \/ \E s \in TokenInputs : CallDecode(s)
  \/ \E t \in TimeInputs : CallEncode(t)
  \/ EncodeDecoded
  \/ DecodeEncoded
  \/ \E p \in ListPrefixes, es \in EntryLists, n \in 0..MaxCombined :
       CallGetListReadings(p, es, n)
  \/ \E p \in CombinedPrefixes, es \in CombinedEntryLists : CallReadCombined(p, es)
  \/ \E m \in MetaInputs : CallExtractMeters(m)
  \/ \E sc \in Scanners, st \in Streams : CallScanner(sc, st)
  \/ ResumeScanner
  \/ \E in \in ServiceInputs : readings_from_reading_service(in)
  \/ TakeReadingList
  \/ FinishReadings
  \/ Return

Spec == Init /\ [][Next]_vars

\* ------------------------------------------------------------------------
\* What a call is expected to return, stated from its inputs alone
\* ------------------------------------------------------------------------
ValueAt == << [m |-> 5, e |-> 1], [m |-> 15, e |-> 1], [m |-> 225, e |-> 2], [m |-> 3, e |-> 0] >>

\* the datetime of time index i moved by h hours
ShiftedTime(i, h) == DateTime(FALSE, IntToBig(BaseTime + SecondsPerHour * (i + h)))

\* l[j] of Python for an index j known to be in range
PyAt(l, j) == IF j >= 0 THEN l[j + 1] ELSE l[Len(l) + j + 1]

RefIndex(v) == (v \div 3) + 2

RefInRange(v, n) == -n <= RefIndex(v) /\ RefIndex(v) < n

RefSlots(e) == (IF e.tk = "r" THEN {e.tv} ELSE {}) \cup (IF e.vk = "r" THEN {e.vv} ELSE {})

AllRefs(entries) == UNION {RefSlots(entries[i]) : i \in 1..Len(entries)}

Resolvable(entries, combined) == \A v \in AllRefs(entries) : RefInRange(v, Len(combined))

ResolvedTimeIndex(e, combined) == IF e.tk = "x" THEN e.tv ELSE PyAt(combined, RefIndex(e.tv)).t

ResolvedValueIndex(e, combined) == IF e.vk = "x" THEN e.vv ELSE PyAt(combined, RefIndex(e.vv)).v

ExpectedReading(e, combined, h) ==
  [timestamp |-> ShiftedTime(ResolvedTimeIndex(e, combined), h),
   kwh |-> ValueAt[ResolvedValueIndex(e, combined)]]

IsListCall == call.fn = "_get_list_readings"

IsCombinedCall == call.fn = "_read_combined"

\* the payload given to readings_from_reading_service, as written
NameCount == Len(Metas[input.meta].names)

ListCount == Len(input.lists)

DocumentNames == Metas[input.meta].names

WrittenCombined == [i \in 1..Len(input.combined) |-> [t |-> input.combined[i].tv, v |-> input.combined[i].vv]]

WrittenTime(e) == ResolvedTimeIndex(e, WrittenCombined)

\* the readings of a list of entries as _get_list_readings returns them
ExpectedList(entries, h) ==
  [j \in 1..Len(entries) |-> ExpectedReading(entries[Len(entries) + 1 - j], WrittenCombined, h)]

WrittenAscending ==
  /\ \A k \in 1..ListCount : \A i \in 1..(Len(input.lists[k]) - 1) :
       WrittenTime(input.lists[k][i]) < WrittenTime(input.lists[k][i + 1])
  /\ \A i \in 1..(Len(input.combined) - 1) : input.combined[i].tv < input.combined[i + 1].tv

Ascending(l) == \A i \in 1..(Len(l) - 1) : DateTimeLess(l[i].timestamp, l[i + 1].timestamp)

Descending(l) == \A i \in 1..(Len(l) - 1) : DateTimeLess(l[i + 1].timestamp, l[i].timestamp)

Returned == pc = "done"

Ended == pc \in {"done", "failed"}

\* ------------------------------------------------------------------------
\* Claims
\* ------------------------------------------------------------------------

\* C1: after set_import_time_offset(h), every Reading produced by
\* _get_list_readings has its resolved timestamp plus exactly h hours, h being
\* the value most recently set.
C1_OffsetInForceIsApplied ==
  (IsListCall /\ call.res.err = "") =>
    \A i \in 1..Len(call.res.readings) :
      call.res.readings[i].timestamp =
        ShiftedTime(ResolvedTimeIndex(call.entries[Len(call.entries) + 1 - i], call.combined),
                    time_offset)

\* C2: started at the last token of a region of N entries preceded by a "24"
\* marker, _get_list_readings returns the index of that marker and exactly N
\* Readings, newest first; each slot is resolved on its own, an explicit slot
\* to the literal token and a back-reference v to the combined entry at Python
\* index floor(v/3)+2 (the timestamp carrying the hour offset the decoder
\* applies); the pair (v, v-1) with v = -3k-7 gives both fields of the entry k
\* positions from the end of the combined list.
C2_ListReadings ==
  (IsListCall /\ Resolvable(call.entries, call.combined)) =>
    LET n == Len(call.entries)
        c == call.combined
    IN /\ call.res.err = ""
       /\ call.res.idx = Len(call.prefix)
       /\ Len(call.res.readings) = n
       /\ \A i \in 1..n :
            call.res.readings[i] = ExpectedReading(call.entries[n + 1 - i], c, parse_time_offset)
       /\ \A i \in 1..n : \A k \in 0..(Len(c) - 1) :
            LET e == call.entries[n + 1 - i]
            IN (e.tk = "r" /\ e.vk = "r" /\ e.vv = -3 * k - 7 /\ e.tv = e.vv - 1) =>
                 call.res.readings[i] =
                   [timestamp |-> ShiftedTime(c[Len(c) - k].t, parse_time_offset),
                    kwh |-> ValueAt[c[Len(c) - k].v]]

C2_Witness ==
  /\ IsListCall
  /\ call.prefix # <<>>
  /\ Len(call.combined) = 2
  /\ call.entries = <<Entry("r", -8, "r", -7), Entry("x", 3, "r", -10)>>
  /\ Len(call.res.readings) = 2
  /\ call.res.readings[1].kwh = ValueAt[1]
  /\ call.res.readings[2].kwh = ValueAt[2]

\* C3: _read_combined on a stream ending in N well-formed entries returns
\* exactly N Readings in stream order with the entries' values and timestamps
\* and no hour offset, preceded by "11" or not; without "11" (and without "9")
\* before the region the diagnostic is emitted and the call still returns.
C3_CombinedReadings ==
  (IsCombinedCall /\ Len(call.entries) >= 1) =>
    /\ call.res.err = ""
    /\ call.res.ret = [i \in 1..Len(call.entries) |->
                         [timestamp |-> TimeAt(call.entries[i].tv),
                          kwh |-> ValueAt[call.entries[i].vv]]]
    /\ (\A i \in 1..Len(call.prefix) : call.prefix[i] # T11) => call.res.warned

C3_Witness ==
  /\ IsCombinedCall
  /\ time_offset # 0 /\ parse_time_offset # 0
  /\ Len(call.entries) = 2 /\ call.entries[1] # call.entries[2]
  /\ call.prefix = << <<"1", "3">>, <<"1", "2">> >>
  /\ call.res.warned
  /\ Len(call.res.ret) = 2

\* C4 as claimed: whenever j = floor(v/3)+2 is below 0 or at least the length
\* of the combined list, the decode fails with an index error and produces
\* nothing.
C4_AnyNegativeIndexFails ==
  (IsListCall /\ \E v \in AllRefs(call.entries) :
                   RefIndex(v) < 0 \/ RefIndex(v) >= Len(call.combined)) =>
    (call.res.err = "IndexError" /\ call.res.readings = <<>>)

\* C4 as the code has it: j is a Python index. The decode fails with an index
\* error exactly when some back-reference has j < -len or j >= len, and then
\* produces no Reading at all; for -len <= j < 0 the entry len+j is used.
C4_OutOfRangeIndexFails ==
  IsListCall =>
    /\ (call.res.err = "IndexError") <=> ~Resolvable(call.entries, call.combined)
    /\ call.res.err # "" => call.res.readings = <<>>
    /\ (Len(call.entries) = 1 /\ call.res.err = "") =>
         LET e == call.entries[1]
         IN (e.tk = "r" /\ RefIndex(e.tv) < 0) =>
              call.res.readings[1].timestamp =
                ShiftedTime(call.combined[Len(call.combined) + RefIndex(e.tv) + 1].t,
                            parse_time_offset)

C4_Witness ==
  /\ IsListCall
  /\ Len(call.combined) = 2
  /\ Len(call.entries) = 1
  /\ call.entries[1].tk = "r" /\ RefIndex(call.entries[1].tv) = -3
  /\ call.res.err = "IndexError"

\* C5: for a payload with n distinct meter names and n per-meter lists,
\* readings_from_reading_service returns, and pairs the i-th name in metadata
\* document order with the i-th per-meter list counted from the end of the
\* token stream, for every i in 1..n; every list has exactly one name and no
\* name is left over.
C5_NamesPairListsFromEnd ==
  (Ended /\ NameCount = ListCount) =>
    /\ Returned
    /\ meter_names = <<>>
    /\ DOMAIN reading_lists = {DocumentNames[i] : i \in 1..NameCount}
    /\ \A i \in 1..NameCount :
         reading_lists[DocumentNames[i]] =
           ExpectedList(input.lists[ListCount + 1 - i], parse_time_offset)

C5_Witness ==
  /\ Returned
  /\ NameCount = 2 /\ ListCount = 2
  /\ input.lists[1] # input.lists[2]
  /\ reading_lists[Name_m1] = ExpectedList(input.lists[2], parse_time_offset)
  /\ reading_lists[Name_m2] = ExpectedList(input.lists[1], parse_time_offset)
  /\ reading_lists[Name_m1] # reading_lists[Name_m2]

\* C6: when the number of meter names differs from the number of per-meter
\* lists, readings_from_reading_service still returns: with more names than
\* lists the excess names are left unmatched and reported by a warning; with
\* more lists than names every list is still in the result.
C6_MismatchStillReturns ==
  (Ended /\ NameCount # ListCount) =>
    /\ Returned
    /\ NameCount > ListCount =>
         /\ Len(meter_names) = NameCount - ListCount
         /\ \E i \in 1..Len(log) : log[i] = Warning(REMAINING, meter_names)
    /\ NameCount < ListCount =>
         \A k \in 1..ListCount : \E n \in DOMAIN reading_lists :
           reading_lists[n] = ExpectedList(input.lists[k], parse_time_offset)

\* C7 as claimed: for a payload whose lists are written in ascending time
\* order, every per-meter list of the result and the combined list of the
\* result are in ascending timestamp order.
C7_AllChronological ==
  (Returned /\ WrittenAscending) =>
    /\ Ascending(combined_readings)
    /\ \A n \in DOMAIN reading_lists : Ascending(reading_lists[n])

\* C7 as the code has it: for such a payload the combined list of the result
\* is in ascending timestamp order and every per-meter list of the result is
\* in descending timestamp order, newest first.
C7_MeterListsNewestFirst ==
  (Returned /\ WrittenAscending) =>
    /\ Ascending(combined_readings)
    /\ Len(combined_readings) = Len(input.combined)
    /\ \A n \in DOMAIN reading_lists : Descending(reading_lists[n])

C7_Witness ==
  /\ Returned
  /\ WrittenAscending
  /\ Len(combined_readings) >= 2
  /\ \E n \in DOMAIN reading_lists :
       /\ Len(reading_lists[n]) = 2
       /\ DateTimeLess(reading_lists[n][2].timestamp, reading_lists[n][1].timestamp)

CodecCalls(fn) == {i \in 1..Len(codec) : codec[i].fn = fn}

\* C8: decode(encode(decode(s))) = decode(s) for every valid token s; encoding
\* writes seconds*250 ticks, and decode(encode(t)) = t for a whole-second t,
\* though the re-encoded token may differ from s.
C8_ValueRoundTrip ==
  /\ (Len(codec) = 3 /\ codec[1].fn = "timestamp_from_encoded") =>
       (codec[2].err = "" /\ codec[3].err = "" /\ codec[3].dt = codec[1].dt)
  /\ (Len(codec) >= 2 /\ codec[1].fn = "encoded_from_timestamp") =>
       (codec[2].err = "" /\ codec[2].dt = codec[1].dt)
  /\ \A i \in CodecCalls("encoded_from_timestamp") :
       codec[i].err = "" =>
         /\ Len(codec[i].tok) = 12
         /\ Norm(b64decode(codec[i].tok \o <<"=", "=">>).bytes)
              = BigMulSmall(codec[i].dt.mag, 250)

C8_Witness ==
  /\ Len(codec) = 3
  /\ codec[1].fn = "timestamp_from_encoded" /\ codec[1].tok = Tok_VdPMRgA
  /\ codec[2].tok # codec[1].tok
  /\ codec[3].err = "" /\ codec[3].dt = codec[1].dt /\ codec[3].dt # Epoch

ModifiedAlphabet == {StdAlphabet[i] : i \in 1..62} \cup {"$", "_"}

TickOverflow(tok) ==
  /\ b64decode(tok \o <<"=", "=">>).err = ""
  /\ BigLess(MaxTimestamp, BigDivSmall(b64decode(tok \o <<"=", "=">>).bytes, 250))

Malformed(tok) ==
  \/ \E k \in 1..Len(tok) : tok[k] \notin ModifiedAlphabet
  \/ Len(tok) % 4 = 1
  \/ TickOverflow(tok)

\* C9: timestamp_from_encoded fails, and returns no point in time, for every
\* malformed token: a character outside the modified-base64 alphabet, a length
\* one more than a multiple of 4, a tick count beyond the time range.
C9_MalformedTokenFails ==
  \A i \in CodecCalls("timestamp_from_encoded") :
    Malformed(codec[i].tok) => codec[i].err # ""

\* C10 as claimed: encoded_from_timestamp succeeds for every representable
\* whole-second time, of either sign.
C10_EncodeSucceedsForEverySign ==
  \A i \in CodecCalls("encoded_from_timestamp") :
    DateTimeInRange(codec[i].dt) => codec[i].err = ""

\* C10 as the code has it: encoded_from_timestamp succeeds for every
\* representable whole-second time at or after the epoch, whose tick count
\* seconds*250 fits the 8-byte unsigned field; for a time before the epoch the
\* tick count is negative and the call fails with OverflowError.
C10_EncodeSucceedsFromEpoch ==
  \A i \in CodecCalls("encoded_from_timestamp") :
    DateTimeInRange(codec[i].dt) =>
      /\ (codec[i].err = "") <=> ~codec[i].dt.neg
      /\ codec[i].dt.neg => codec[i].err = "OverflowError"
      /\ ~codec[i].dt.neg => Len(BigMulSmall(codec[i].dt.mag, 250)) <= 8

C10_Witness ==
  /\ Len(codec) = 1
  /\ codec[1].fn = "encoded_from_timestamp"
  /\ codec[1].dt = DateTime(FALSE, MaxTimestamp)
  /\ codec[1].err = "" /\ Len(codec[1].tok) = 12

IsExtractCall == call.fn = "_extract_meters"

HasStart(meta_csv) == \E i \in 1..Len(meta_csv) : Contains(meta_csv[i], "+")

HasColumn(meta_csv) == \E i \in 1..Len(meta_csv) : meta_csv[i] = COLUMN

\* C11: _extract_meters fails with InvalidMetadata and returns no names when
\* no token contains '+', and when a start marker is present but no token
\* equals '"column"'; a token that only contains the word does not count.
\* It fails in this way in no other case.
C11_MissingMarkerFails ==
  IsExtractCall =>
    /\ (~HasStart(call.meta_csv) \/ ~HasColumn(call.meta_csv)) =>
         (call.res.err = "InvalidMetadata" /\ call.res.ret = <<>>)
    /\ call.res.err = "InvalidMetadata" =>
         (~HasStart(call.meta_csv) \/ ~HasColumn(call.meta_csv))

C11_Witness ==
  /\ IsExtractCall
  /\ call.meta_csv = <<Quoted(<<"p", "r", "e">>), START_1, Quoted(Name_m1), NET_METER_COLUMN>>
  /\ call.res.err = "InvalidMetadata"

\* positions of a metadata list, counted from 1
Starts(m) == {i \in 1..Len(m) : Contains(m[i], "+")}

ColumnAt(m) == CHOOSE i \in 1..Len(m) : m[i] = COLUMN /\ \A j \in 1..(i - 1) : m[j] # COLUMN

StartsPrecedeColumn(m) == HasStart(m) /\ HasColumn(m) /\ \A i \in Starts(m) : i < ColumnAt(m)

Stripped(t) == PySlice(t, 1, -1)

\* the start marker of the segment position p lies in
SegmentStart(m, p) == CHOOSE i \in Starts(m) : i < p /\ \A j \in Starts(m) : j < p => j <= i

AfterStart(m, p) == p > 1 /\ (p - 1) \in Starts(m)

\* a later token of a segment
InBody(m, p) ==
  /\ p < ColumnAt(m)
  /\ p \notin Starts(m)
  /\ ~AfterStart(m, p)
  /\ \E i \in Starts(m) : i < p

Skipped(m, p) == Contains(m[p], ".") \/ Contains(m[p], "#")

RECURSIVE IsTop(_, _)
RECURSIVE CurrentName(_, _)
\* p holds a top-level meter name
IsTop(m, p) ==
  \/ AfterStart(m, p)
  \/ /\ InBody(m, p)
     /\ ~Skipped(m, p)
     /\ ~Contains(Stripped(m[p]), "-")
     /\ ~IsSubstring(Stripped(m[CurrentName(m, p)]), Stripped(m[p]))

\* the position of the meter name current when the body token p is read
CurrentName(m, p) ==
  CHOOSE q \in (SegmentStart(m, p) + 1)..(p - 1) :
    IsTop(m, q) /\ \A r \in (q + 1)..(p - 1) : ~IsTop(m, r)

\* p holds a submeter name
IsSub(m, p) ==
  /\ InBody(m, p)
  /\ ~Skipped(m, p)
  /\ IsSubstring(Stripped(m[CurrentName(m, p)]), Stripped(m[p]))

HasSubs(m, q) == \E p \in (q + 1)..Len(m) : IsSub(m, p) /\ CurrentName(m, p) = q

Emitted(m, p) == IsSub(m, p) \/ (IsTop(m, p) /\ ~HasSubs(m, p))

ExpectedNames(m) ==
  LET test(i) == Emitted(m, i)
      at == SelectSeq([i \in 1..Len(m) |-> i], test)
  IN [k \in 1..Len(at) |-> Stripped(m[at[k]])]

\* C12: for metadata whose start markers all precede the end marker,
\* _extract_meters returns, in document order, every top-level meter name
\* that no submeter name followed while it was current, and the submeter
\* names in place of the others; class names, colours, dashed names that are
\* no submeter, and the tokens outside the segments are not returned.
C12_ExtractedNames ==
  (IsExtractCall /\ StartsPrecedeColumn(call.meta_csv)) =>
    /\ call.res.err = ""
    /\ call.res.ret = ExpectedNames(call.meta_csv)
    /\ \A k \in 1..Len(call.res.ret) :
         \E p \in 1..ColumnAt(call.meta_csv) :
           /\ AfterStart(call.meta_csv, p) \/ InBody(call.meta_csv, p)
           /\ call.res.ret[k] = Stripped(call.meta_csv[p])
           /\ InBody(call.meta_csv, p) => ~Skipped(call.meta_csv, p)

C12_Witness ==
  /\ IsExtractCall
  /\ call.meta_csv = <<Quoted(<<"p", "r", "e">>), START_1, Quoted(Name_m4), Quoted(Name_m4a),
                       COLUMN, Quoted(<<"e", "n", "d">>)>>
  /\ call.res.ret = <<Name_m4a>>

\* the index in csvd of the "24" that follows the j-th list of the payload,
\* of its "3" for j = 0
RECURSIVE MarkerIndex(_)
MarkerIndex(j) ==
  IF j = 0 THEN Len(input.before)
  ELSE MarkerIndex(j - 1)
       + Len(Flatten([i \in 1..Len(input.lists[j]) |-> EntryTokens(input.lists[j][i])])) + 3

Taken == Cardinality(DOMAIN reading_lists)

\* C13: on a stream made of "3" and per-meter lists each followed by its own
\* "24", meter_reading_generator yields one decoded list per "24", the list
\* nearest the end first; after each yield it rests on the marker ahead of
\* the list it yielded and scans no further until asked again; on reaching
\* "3" it stops, whatever lists and "24" markers stand earlier in the stream.
C13_OneListPerMarker ==
  /\ pc \in {"lists", "done"} =>
       /\ Taken <= ListCount
       /\ reading_gen.started <=> Taken > 0
       /\ \A i \in 1..Taken :
            reading_lists[DocumentNames[i]] =
              ExpectedList(input.lists[ListCount + 1 - i], parse_time_offset)
       /\ Taken > 0 =>
            /\ reading_gen.idx = MarkerIndex(ListCount - Taken)
            /\ Item(csvd, reading_gen.idx) = (IF Taken = ListCount THEN T3 ELSE T24)
       /\ Returned => Taken = ListCount
  /\ (Ended /\ NameCount >= ListCount) => Returned
  /\ pc = "failed" => (error = "IndexError" /\ meter_names = <<>> /\ Taken < ListCount)

C13_Witness ==
  /\ Returned
  /\ input.before = EarlierList
  /\ ListCount = 2 /\ NameCount = 3
  /\ Taken = 2
  /\ Item(csvd, reading_gen.idx) = T3 /\ reading_gen.idx > 0

\* C14: _read_combined emits the diagnostic only when its scan runs off the
\* front of the stream or a found "9" lacks its "10" two tokens before; when
\* the scan stops on "11" no diagnostic is emitted; in each case the readings
\* accumulated are returned and nothing is raised. The entries of the calls
\* are well formed, so the scan stops on "11" exactly when the tokens ahead
\* of them hold one.
C14_DiagnosticOnlyOffFront ==
  IsCombinedCall =>
    /\ call.res.err = ""
    /\ Len(call.res.ret) = Len(call.entries)
    /\ call.res.warned => \A i \in 1..Len(call.prefix) : call.prefix[i] # T11

IsScan(scanner) == call.fn = "scan" /\ call.scanner = scanner

\* C15: for every token stream, each position at or above 0 that the outer
\* loop of meter_reading_generator examines holds "3" or "24", so its
\* assertion never fails; the position _get_list_readings returns is negative
\* or holds "24" or "3".
C15_LoopSeesOnlyMarkers ==
  /\ IsScan("meter_reading_generator") =>
       /\ call.res.err # "AssertionError"
       /\ \A i \in 1..Len(call.res.positions) :
            Item(call.csvd, call.res.positions[i]) \in {T3, T24}
  /\ IsScan("_get_list_readings") =>
       \A i \in 1..Len(call.res.positions) :
         Item(call.csvd, call.res.positions[i]) \in {T3, T24}

\* C16: none of the three backward scanners reads the token stream at a
\* negative index: every token read for a marker check, a timestamp, a value
\* or a back-reference lies at a position in 0..len-1, for any token stream.
C16_NoNegativeRead ==
  call.fn = "scan" => call.res.low >= 0

====
